---- MODULE Spec2Model ----
(***************************************************************************)
(* Model of the image crop tool of src/src/App.tsx: the session state of   *)
(* the App component (image, zoom, rotation, crop rectangle, selected      *)
(* aspect ratio, drag gesture) and its event handlers.                     *)
(*                                                                         *)
(* JavaScript numbers are modelled as exact rationals <<n, d>> in lowest   *)
(* terms with d > 0; zoom is kept in tenths (the slider step).             *)
(***************************************************************************)
EXTENDS Integers, Sequences, FiniteSets, TLC

VARIABLES
    imageUrl,       \* useState<string | null>: "null" or the loaded image
    imageError,     \* useState<string | null>: "null" or an error kind
    zoom,           \* useState(1), in tenths
    rotation,       \* useState(0), degrees
    cropArea,       \* useState<CropArea>
    selectedRatio,  \* useState<AspectRatio>: an entry of aspectRatios
    isDragging,     \* useState(false)
    dragType,       \* useState<'move' | HandlePosition | null>
    dragStart,      \* useState({x, y}): clientX / clientY at mouse down
    initialCrop,    \* useState<CropArea>: crop rectangle at mouse down
    readers,        \* FileReaders whose readAsDataURL has not completed
    urlLoads,       \* Image objects of handleUrlSubmit still loading
    imageRef,       \* imageRef.current: the decoded image's size, or NoImage
    preview,        \* source region last drawn by updatePreview, or NoRegion
    last,           \* history: the handler that ran last
    gestures,       \* history: number of mouse downs so far
    picks,          \* history: number of ratio buttons pressed so far
    lastLoad        \* history: what the last successful load replaced

vars == <<imageUrl, imageError, zoom, rotation, cropArea, selectedRatio,
          isDragging, dragType, dragStart, initialCrop, readers, urlLoads,
          imageRef, preview, last, gestures, picks, lastLoad>>

----------------------------------------------------------------------------
(* Bounds of the exploration *)

\* pointer coordinates reach MaxGrid long steps on either side of the origin
MaxGrid == 1
\* mouse downs explored in one session
MaxGestures == 1
\* ratio buttons pressed in one session
MaxPicks == 2
\* file reads / URL loads in flight at the same time
MaxPending == 1
\* quarter turns of the rotate buttons explored beyond the slider's range
MaxTurns == 2

----------------------------------------------------------------------------
(* Numbers *)

RECURSIVE Gcd(_, _)
Gcd(a, b) == IF b = 0 THEN a ELSE Gcd(b, a % b)

Abs(n) == IF n < 0 THEN -n ELSE n

Norm(n, d) ==
    LET s == IF d < 0 THEN -1 ELSE 1
        g == Gcd(Abs(n), Abs(d))
    IN  <<(s * n) \div g, (s * d) \div g>>

Lcm(a, b) == (a \div Gcd(a, b)) * b

\* numerator of a over the denominator l, a multiple of a's denominator
Over(a, l) == a[1] * (l \div a[2])

R(n) == <<n, 1>>
RNeg(a) == <<-a[1], a[2]>>
RInv(a) == IF a[1] < 0 THEN <<-a[2], -a[1]>> ELSE <<a[2], a[1]>>
RAdd(a, b) == LET l == Lcm(a[2], b[2]) IN Norm(Over(a, l) + Over(b, l), l)
RSub(a, b) == RAdd(a, RNeg(b))
RMul(a, b) ==
    LET g1 == Gcd(Abs(a[1]), b[2])
        g2 == Gcd(Abs(b[1]), a[2])
    IN  Norm((a[1] \div g1) * (b[1] \div g2), (a[2] \div g2) * (b[2] \div g1))
RDiv(a, b) == RMul(a, RInv(b))
RLt(a, b) == LET l == Lcm(a[2], b[2]) IN Over(a, l) < Over(b, l)
RLe(a, b) == ~RLt(b, a)
RMax(a, b) == IF RLt(a, b) THEN b ELSE a
RMin(a, b) == IF RLt(b, a) THEN b ELSE a
RAbs(a) == <<Abs(a[1]), a[2]>>

----------------------------------------------------------------------------
(* Constants of the component *)

Null == "null"

containerWidth == 500
containerHeight == 375
minSize == 50

\* a ratio value of <<0, 0>> stands for the null value of the Free entry
NullValue == <<0, 0>>

aspectRatios ==
    << [name |-> "Free", value |-> NullValue],
       [name |-> "1:1",  value |-> <<1, 1>>],
       [name |-> "4:3",  value |-> <<4, 3>>],
       [name |-> "16:9", value |-> <<16, 9>>],
       [name |-> "3:2",  value |-> <<3, 2>>],
       [name |-> "2:3",  value |-> <<2, 3>>],
       [name |-> "9:16", value |-> <<9, 16>>] >>

\* JavaScript truthiness of ratio.value (null and 0 are falsy)
Truthy(v) == v # NullValue /\ v[1] # 0

HandlePositions == {"nw", "n", "ne", "e", "se", "s", "sw", "w"}

Rect(x, y, w, h) == [x |-> x, y |-> y, width |-> w, height |-> h]

DefaultCrop == Rect(R(100), R(75), R(300), R(225))
ZeroCrop == Rect(R(0), R(0), R(0), R(0))

\* imageRef.current = null; nothing drawn yet; no load yet
NoImage == [width |-> 0, height |-> 0]
NoRegion == ZeroCrop
NoLoad == [image |-> Null, edited |-> FALSE]

----------------------------------------------------------------------------
(* Crop geometry *)

\* constrainToRatio, reading selectedRatio and initialCrop of the render
constrainToRatio(width, height, handle, selRatio, initCrop) ==
    IF ~Truthy(selRatio.value) THEN [width |-> width, height |-> height]
    ELSE
      LET ratio == selRatio.value
          isHorizontalHandle == handle \in {"e", "w"}
          isVerticalHandle == handle \in {"n", "s"}
          newHeightFromWidth == RDiv(width, ratio)
          newWidthFromHeight == RMul(height, ratio)
      IN  IF isHorizontalHandle
            THEN [width |-> width, height |-> RDiv(width, ratio)]
          ELSE IF isVerticalHandle
            THEN [width |-> RMul(height, ratio), height |-> height]
          ELSE IF RLt(RAbs(RSub(height, initCrop.height)),
                      RAbs(RSub(width, initCrop.width)))
            THEN [width |-> width, height |-> newHeightFromWidth]
          ELSE [width |-> newWidthFromHeight, height |-> height]

\* the raw widths and heights of the switch in handleMouseMove
WidthPlus(initCrop, deltaX) == RMax(R(minSize), RAdd(initCrop.width, R(deltaX)))
WidthMinus(initCrop, deltaX) == RMax(R(minSize), RSub(initCrop.width, R(deltaX)))
HeightPlus(initCrop, deltaY) == RMax(R(minSize), RAdd(initCrop.height, R(deltaY)))
HeightMinus(initCrop, deltaY) == RMax(R(minSize), RSub(initCrop.height, R(deltaY)))

\* the right and bottom edges of the rectangle at mouse down
RightEdge(c) == RAdd(c.x, c.width)
BottomEdge(c) == RAdd(c.y, c.height)

\* x / y that keeps the rectangle centred on the initial rectangle's centre
CenterX(initCrop, w) == RAdd(initCrop.x, RDiv(RSub(initCrop.width, w), R(2)))
CenterY(initCrop, h) == RAdd(initCrop.y, RDiv(RSub(initCrop.height, h), R(2)))

\* a corner handle: both dimensions from the deltas, coupled when a ratio is set
Corner(w, h, handle, selRatio, initCrop) ==
    IF Truthy(selRatio.value)
      THEN constrainToRatio(w, h, handle, selRatio, initCrop)
      ELSE [width |-> w, height |-> h]

\* the switch (dragType) of handleMouseMove, before the bounds clamp
resizeCrop(handle, deltaX, deltaY, initCrop, selRatio) ==
    LET locked == Truthy(selRatio.value) IN
    CASE handle = "nw" ->
           LET c == Corner(WidthMinus(initCrop, deltaX), HeightMinus(initCrop, deltaY),
                           handle, selRatio, initCrop)
           IN  Rect(RSub(RightEdge(initCrop), c.width),
                    RSub(BottomEdge(initCrop), c.height), c.width, c.height)
      [] handle = "n" ->
           LET h == HeightMinus(initCrop, deltaY)
               c == constrainToRatio(initCrop.width, h, handle, selRatio, initCrop)
           IN  Rect(IF locked THEN CenterX(initCrop, c.width) ELSE initCrop.x,
                    RSub(BottomEdge(initCrop), h),
                    IF locked THEN c.width ELSE initCrop.width, h)
      [] handle = "ne" ->
           LET c == Corner(WidthPlus(initCrop, deltaX), HeightMinus(initCrop, deltaY),
                           handle, selRatio, initCrop)
           IN  Rect(initCrop.x, RSub(BottomEdge(initCrop), c.height), c.width, c.height)
      [] handle = "e" ->
           LET w == WidthPlus(initCrop, deltaX)
               c == constrainToRatio(w, initCrop.height, handle, selRatio, initCrop)
           IN  Rect(initCrop.x,
                    IF locked THEN CenterY(initCrop, c.height) ELSE initCrop.y,
                    w, IF locked THEN c.height ELSE initCrop.height)
      [] handle = "se" ->
           LET c == Corner(WidthPlus(initCrop, deltaX), HeightPlus(initCrop, deltaY),
                           handle, selRatio, initCrop)
           IN  Rect(initCrop.x, initCrop.y, c.width, c.height)
      [] handle = "s" ->
           LET h == HeightPlus(initCrop, deltaY)
               c == constrainToRatio(initCrop.width, h, handle, selRatio, initCrop)
           IN  Rect(IF locked THEN CenterX(initCrop, c.width) ELSE initCrop.x,
                    initCrop.y,
                    IF locked THEN c.width ELSE initCrop.width, h)
      [] handle = "sw" ->
           LET c == Corner(WidthMinus(initCrop, deltaX), HeightPlus(initCrop, deltaY),
                           handle, selRatio, initCrop)
           IN  Rect(RSub(RightEdge(initCrop), c.width), initCrop.y, c.width, c.height)
      [] handle = "w" ->
           LET w == WidthMinus(initCrop, deltaX)
               c == constrainToRatio(w, initCrop.height, handle, selRatio, initCrop)
           IN  Rect(RSub(RightEdge(initCrop), w),
                    IF locked THEN CenterY(initCrop, c.height) ELSE initCrop.y,
                    w, IF locked THEN c.height ELSE initCrop.height)

\* "Constrain to container bounds": position first, then size
boundPosition(c) ==
    [c EXCEPT !.x = RMax(R(0), RMin(R(containerWidth - minSize), c.x)),
              !.y = RMax(R(0), RMin(R(containerHeight - minSize), c.y))]

\* boundSize without the clamp of width and height
boundSizeUnclamped(c) == c

boundSize(c) ==
    [c EXCEPT !.width = RMin(c.width, RSub(R(containerWidth), c.x)),
              !.height = RMin(c.height, RSub(R(containerHeight), c.y))]

boundCrop(c) == boundSize(boundPosition(c))

\* the move branch of handleMouseMove
moveCrop(deltaX, deltaY, initCrop, crop) ==
    [crop EXCEPT
       !.x = RMax(R(0), RMin(RSub(R(containerWidth), crop.width),
                             RAdd(initCrop.x, R(deltaX)))),
       !.y = RMax(R(0), RMin(RSub(R(containerHeight), crop.height),
                             RAdd(initCrop.y, R(deltaY))))]

\* the rectangle handleMouseMove passes to setCropArea
gestureCrop(type, deltaX, deltaY, initCrop, crop, selRatio) ==
    IF type = "move"
      THEN moveCrop(deltaX, deltaY, initCrop, crop)
      ELSE boundCrop(resizeCrop(type, deltaX, deltaY, initCrop, selRatio))

\* the shrink steps of applyAspectRatio on [width, height]
shrinkHeight(d, ratio) ==
    IF RLt(R(containerHeight), d.height)
      THEN LET h == RDiv(RMul(R(containerHeight), R(8)), R(10))
           IN  [width |-> RMul(h, ratio), height |-> h]
      ELSE d

shrinkWidth(d, ratio) ==
    IF RLt(R(containerWidth), d.width)
      THEN LET w == RDiv(RMul(R(containerWidth), R(8)), R(10))
           IN  [width |-> w, height |-> RDiv(w, ratio)]
      ELSE d

\* ratioCrop with the new rectangle placed a whole height above the centre
ratioCropDrift(ratio, crop) ==
    LET currentCenterX == RAdd(crop.x, RDiv(crop.width, R(2)))
        currentCenterY == RAdd(crop.y, RDiv(crop.height, R(2)))
        d == shrinkWidth(shrinkHeight([width |-> crop.width,
                                       height |-> RDiv(crop.width, ratio)], ratio),
                         ratio)
        newX == RSub(currentCenterX, RDiv(d.width, R(2)))
        newY == RSub(currentCenterY, d.height)
    IN  Rect(RMax(R(0), RMin(RSub(R(containerWidth), d.width), newX)),
             RMax(R(0), RMin(RSub(R(containerHeight), d.height), newY)),
             d.width, d.height)

\* ratioCrop that keeps the top-left corner instead of the centre
ratioCropTopLeft(ratio, crop) ==
    LET d == shrinkWidth(shrinkHeight([width |-> crop.width,
                                       height |-> RDiv(crop.width, ratio)], ratio),
                         ratio)
    IN  Rect(RMax(R(0), RMin(RSub(R(containerWidth), d.width), crop.x)),
             RMax(R(0), RMin(RSub(R(containerHeight), d.height), crop.y)),
             d.width, d.height)

\* the rectangle applyAspectRatio passes to setCropArea for a truthy ratio.value
ratioCrop(ratio, crop) ==
    LET currentCenterX == RAdd(crop.x, RDiv(crop.width, R(2)))
        currentCenterY == RAdd(crop.y, RDiv(crop.height, R(2)))
        d == shrinkWidth(shrinkHeight([width |-> crop.width,
                                       height |-> RDiv(crop.width, ratio)], ratio),
                         ratio)
        newX == RSub(currentCenterX, RDiv(d.width, R(2)))
        newY == RSub(currentCenterY, RDiv(d.height, R(2)))
    IN  Rect(RMax(R(0), RMin(RSub(R(containerWidth), d.width), newX)),
             RMax(R(0), RMin(RSub(R(containerHeight), d.height), newY)),
             d.width, d.height)

\* sourceRegion with the zoom left out of the scale
sourceRegionNoZoom(crop, z, img) ==
    LET scaleX == RDiv(R(img.width), R(containerWidth))
        scaleY == RDiv(R(img.height), R(containerHeight))
    IN  Rect(RMul(crop.x, scaleX), RMul(crop.y, scaleY),
             RMul(crop.width, scaleX), RMul(crop.height, scaleY))

\* updatePreview: the source rectangle passed to drawImage, for an image of
\* size img and zoom z in tenths
sourceRegion(crop, z, img) ==
    LET scaleX == RDiv(R(img.width), RDiv(R(containerWidth * z), R(10)))
        scaleY == RDiv(R(img.height), RDiv(R(containerHeight * z), R(10)))
    IN  Rect(RMul(crop.x, scaleX), RMul(crop.y, scaleY),
             RMul(crop.width, scaleX), RMul(crop.height, scaleY))

----------------------------------------------------------------------------
(* Inputs *)

\* clientX / clientY of the pointer events
Coords == {0, 50} \cup {250 * k : k \in -MaxGrid .. MaxGrid}

\* clientX / clientY of the mouse down
PressCoords == {0}

\* values of the zoom slider (tenths) and of the rotation slider
ZoomValues == 5 .. 30
PresetAngles == {-45, 0, 45, 90, 180}

\* sizes of decoded images; the sample image is 800 x 600
ImageSizes ==
    { [width |-> 800, height |-> 600],
      [width |-> containerWidth, height |-> containerHeight],
      [width |-> 1000, height |-> 750],
      [width |-> 640, height |-> 640] }

\* crop rectangles shown in the preview: on a grid of MaxGrid + 1 steps per
\* axis, and the rectangle {125, 93.75, 125, 93.75}
PreviewCrops ==
    { Rect(R(50 * i), R(75 * j), R(100 + 150 * i), R(75 + 75 * j)) :
        i \in 0 .. MaxGrid, j \in 0 .. MaxGrid }
    \cup { DefaultCrop, Rect(R(125), <<375, 4>>, R(125), <<375, 4>>) }

\* rectangles a Free-ratio session leaves behind: whole coordinates, at least
\* minSize wide and high, inside the container
FreeCrops ==
    { c \in { Rect(R(150 * i), R(75 * j), R(50 + 150 * k), R(50 + 65 * l)) :
                i \in 0 .. MaxGrid + 1, j \in 0 .. MaxGrid + 2,
                k \in 0 .. MaxGrid + 2, l \in 0 .. MaxGrid + 4 } :
        /\ RLe(RAdd(c.x, c.width), R(containerWidth))
        /\ RLe(RAdd(c.y, c.height), R(containerHeight)) }
    \cup {DefaultCrop}

\* the slider positions tried
ZoomTried == {5, 30}
RotationTried == {-180, -30}

----------------------------------------------------------------------------
(* State after the first render *)

Init ==
    /\ imageUrl = Null
    /\ imageError = Null
    /\ zoom = 10
    /\ rotation = 0
    /\ cropArea = DefaultCrop
    /\ selectedRatio = aspectRatios[1]
    /\ isDragging = FALSE
    /\ dragType = Null
    /\ dragStart = [x |-> 0, y |-> 0]
    /\ initialCrop = ZeroCrop
    /\ readers = 0
    /\ urlLoads = 0
    /\ imageRef = NoImage
    /\ preview = NoRegion
    /\ last = "init"
    /\ gestures = 0
    /\ picks = 0
    /\ lastLoad = NoLoad

gestureVars == <<isDragging, dragType, dragStart, initialCrop>>
dragVars == <<gestureVars, gestures, picks>>
loadVars == <<readers, urlLoads>>
otherVars == <<imageRef, preview, lastLoad>>

\* history: the image and whether the transform was edited, before a load
Replaced ==
    [image |-> imageUrl,
     edited |-> \/ cropArea # DefaultCrop
                \/ zoom # 10
                \/ rotation # 0
                \/ selectedRatio # aspectRatios[1]]

\* resetCrop that leaves the selected ratio alone
resetCropKeepsRatio ==
    /\ cropArea' = DefaultCrop
    /\ zoom' = 10
    /\ rotation' = 0
    /\ selectedRatio' = selectedRatio

\* resetCrop: the four setters
resetCrop ==
    /\ cropArea' = DefaultCrop
    /\ zoom' = 10
    /\ rotation' = 0
    /\ selectedRatio' = aspectRatios[1]

----------------------------------------------------------------------------
(* Loading an image *)

\* handleFileUpload(file) with a file that is not an image (drop zone or
\* file input, both rendered only while no image is loaded)
FileUploadRejected ==
    /\ imageUrl = Null
    /\ imageError' = "not-an-image"
    /\ last' = "handleFileUpload"
    /\ UNCHANGED <<imageUrl, zoom, rotation, cropArea, selectedRatio,
                   dragVars, loadVars, otherVars>>

\* handleFileUpload(file) with an image file (drop, file input, or paste at
\* any time): the read is started
FileUploadStart ==
    /\ readers < MaxPending
    /\ imageError' = Null
    /\ readers' = readers + 1
    /\ last' = "handleFileUpload"
    /\ UNCHANGED <<imageUrl, zoom, rotation, cropArea, selectedRatio,
                   dragVars, urlLoads, otherVars>>

\* reader.onload
ReaderOnload ==
    /\ readers > 0
    /\ readers' = readers - 1
    /\ imageUrl' = "file"
    /\ resetCrop
    /\ lastLoad' = Replaced
    /\ last' = "reader.onload"
    /\ UNCHANGED <<imageError, dragVars, urlLoads, imageRef, preview>>

\* reader.onerror that also drops the image shown
ReaderOnerrorDropsImage ==
    /\ readers > 0
    /\ readers' = readers - 1
    /\ imageError' = "read-failed"
    /\ imageUrl' = Null
    /\ last' = "reader.onerror"
    /\ UNCHANGED <<zoom, rotation, cropArea, selectedRatio,
                   dragVars, urlLoads, otherVars>>

\* reader.onerror
ReaderOnerror ==
    /\ readers > 0
    /\ readers' = readers - 1
    /\ imageError' = "read-failed"
    /\ last' = "reader.onerror"
    /\ UNCHANGED <<imageUrl, zoom, rotation, cropArea, selectedRatio,
                   dragVars, urlLoads, otherVars>>

\* handleUrlSubmit with an empty (or blank) urlInput: returns at once
UrlSubmitEmpty ==
    /\ imageUrl = Null
    /\ last' = "handleUrlSubmit"
    /\ UNCHANGED <<imageUrl, imageError, zoom, rotation, cropArea, selectedRatio,
                   dragVars, loadVars, otherVars>>

\* handleUrlSubmit with a URL: the image starts loading
UrlSubmit ==
    /\ imageUrl = Null
    /\ urlLoads < MaxPending
    /\ imageError' = Null
    /\ urlLoads' = urlLoads + 1
    /\ last' = "handleUrlSubmit"
    /\ UNCHANGED <<imageUrl, zoom, rotation, cropArea, selectedRatio,
                   dragVars, readers, otherVars>>

\* img.onload of handleUrlSubmit
UrlOnload ==
    /\ urlLoads > 0
    /\ urlLoads' = urlLoads - 1
    /\ imageUrl' = "url"
    /\ resetCrop
    /\ lastLoad' = Replaced
    /\ last' = "img.onload"
    /\ UNCHANGED <<imageError, dragVars, readers, imageRef, preview>>

\* img.onerror of handleUrlSubmit
UrlOnerror ==
    /\ urlLoads > 0
    /\ urlLoads' = urlLoads - 1
    /\ imageError' = "url-failed"
    /\ last' = "img.onerror"
    /\ UNCHANGED <<imageUrl, zoom, rotation, cropArea, selectedRatio,
                   dragVars, readers, otherVars>>

\* loadSampleImage
LoadSampleImage ==
    /\ imageUrl = Null
    /\ imageUrl' = "sample"
    /\ imageError' = Null
    /\ resetCrop
    /\ lastLoad' = Replaced
    /\ last' = "loadSampleImage"
    /\ UNCHANGED <<dragVars, loadVars, imageRef, preview>>

\* the "Change Image" button
ChangeImage ==
    /\ imageUrl # Null
    /\ imageUrl' = Null
    /\ imageRef' = NoImage
    /\ last' = "changeImage"
    /\ UNCHANGED <<imageError, zoom, rotation, cropArea, selectedRatio,
                   dragVars, loadVars, preview, lastLoad>>

\* the "Reset All" button
ResetAll ==
    /\ imageUrl # Null
    /\ resetCrop
    /\ last' = "resetCrop"
    /\ UNCHANGED <<imageUrl, imageError, dragVars, loadVars, otherVars>>

----------------------------------------------------------------------------
(* The drag gesture *)

\* handleMouseDown(e, type) on the crop rectangle or one of its handles
HandleMouseDown(type, clientX, clientY) ==
    /\ imageUrl # Null
    /\ gestures' = gestures + 1
    /\ isDragging' = TRUE
    /\ dragType' = type
    /\ dragStart' = [x |-> clientX, y |-> clientY]
    /\ initialCrop' = cropArea
    /\ last' = "handleMouseDown"
    /\ UNCHANGED <<imageUrl, imageError, zoom, rotation, cropArea, selectedRatio,
                   picks, loadVars, otherVars>>

\* handleMouseMove(e)
HandleMouseMove(clientX, clientY) ==
    /\ IF ~isDragging \/ dragType = Null
         THEN cropArea' = cropArea
         ELSE cropArea' = gestureCrop(dragType, clientX - dragStart.x,
                                      clientY - dragStart.y, initialCrop,
                                      cropArea, selectedRatio)
    /\ last' = "handleMouseMove"
    /\ UNCHANGED <<imageUrl, imageError, zoom, rotation, selectedRatio,
                   dragVars, loadVars, otherVars>>

\* handleMouseUp that puts back the rectangle of the mouse down
HandleMouseUpReverts ==
    /\ isDragging
    /\ isDragging' = FALSE
    /\ dragType' = Null
    /\ cropArea' = initialCrop
    /\ last' = "handleMouseUp"
    /\ UNCHANGED <<imageUrl, imageError, zoom, rotation, selectedRatio,
                   dragStart, initialCrop, gestures, picks, loadVars, otherVars>>

\* handleMouseUp without setDragType(null)
HandleMouseUpKeepsType ==
    /\ isDragging
    /\ isDragging' = FALSE
    /\ last' = "handleMouseUp"
    /\ UNCHANGED <<imageUrl, imageError, zoom, rotation, cropArea, selectedRatio,
                   dragType, dragStart, initialCrop, gestures, picks, loadVars,
                   otherVars>>

\* handleMouseUp
HandleMouseUp ==
    /\ isDragging
    /\ isDragging' = FALSE
    /\ dragType' = Null
    /\ last' = "handleMouseUp"
    /\ UNCHANGED <<imageUrl, imageError, zoom, rotation, cropArea, selectedRatio,
                   dragStart, initialCrop, gestures, picks, loadVars, otherVars>>

\* applyAspectRatio that squares the rectangle when ratio.value is null
ApplyAspectRatioSquaresFree(ratio) ==
    /\ imageUrl # Null
    /\ selectedRatio' = ratio
    /\ cropArea' = IF Truthy(ratio.value) THEN ratioCrop(ratio.value, cropArea)
                                          ELSE ratioCrop(R(1), cropArea)
    /\ picks' = picks + 1
    /\ last' = "applyAspectRatio"
    /\ UNCHANGED <<imageUrl, imageError, zoom, rotation, gestureVars, gestures,
                   loadVars, otherVars>>

\* applyAspectRatio(ratio), a button of the ratio bar
ApplyAspectRatio(ratio) ==
    /\ imageUrl # Null
    /\ selectedRatio' = ratio
    /\ cropArea' = IF Truthy(ratio.value) THEN ratioCrop(ratio.value, cropArea)
                                          ELSE cropArea
    /\ picks' = picks + 1
    /\ last' = "applyAspectRatio"
    /\ UNCHANGED <<imageUrl, imageError, zoom, rotation, gestureVars, gestures,
                   loadVars, otherVars>>

----------------------------------------------------------------------------
(* Zoom and rotation controls *)

Max(a, b) == IF a < b THEN b ELSE a
Min(a, b) == IF b < a THEN b ELSE a

transformFrame == <<imageUrl, imageError, cropArea, selectedRatio, dragVars,
                    loadVars, otherVars>>

ZoomOut ==
    /\ imageUrl # Null
    /\ zoom' = Max(5, zoom - 1)
    /\ last' = "zoomOut"
    /\ UNCHANGED <<rotation, transformFrame>>

\* the + button without Math.min
ZoomInUnclamped ==
    /\ imageUrl # Null
    /\ zoom' = zoom + 1
    /\ last' = "zoomIn"
    /\ UNCHANGED <<rotation, transformFrame>>

ZoomIn ==
    /\ imageUrl # Null
    /\ zoom' = Min(30, zoom + 1)
    /\ last' = "zoomIn"
    /\ UNCHANGED <<rotation, transformFrame>>

ZoomSlider(v) ==
    /\ imageUrl # Null
    /\ zoom' = v
    /\ last' = "zoomSlider"
    /\ UNCHANGED <<rotation, transformFrame>>

RotateLeft ==
    /\ imageUrl # Null
    /\ rotation' = rotation - 90
    /\ last' = "rotateLeft"
    /\ UNCHANGED <<zoom, transformFrame>>

RotateRight ==
    /\ imageUrl # Null
    /\ rotation' = rotation + 90
    /\ last' = "rotateRight"
    /\ UNCHANGED <<zoom, transformFrame>>

RotationSlider(deg) ==
    /\ imageUrl # Null
    /\ rotation' = deg
    /\ last' = "rotationSlider"
    /\ UNCHANGED <<zoom, transformFrame>>

PresetAngle(deg) ==
    /\ imageUrl # Null
    /\ rotation' = deg
    /\ last' = "presetAngle"
    /\ UNCHANGED <<zoom, transformFrame>>

----------------------------------------------------------------------------
(* Specifications *)

LoadNext ==
    \/ FileUploadRejected
    \/ FileUploadStart
    \/ ReaderOnload
    \/ ReaderOnerror
    \/ UrlSubmitEmpty
    \/ UrlSubmit
    \/ UrlOnload
    \/ UrlOnerror
    \/ LoadSampleImage
    \/ ChangeImage
    \/ ResetAll

\* the crop editor driven with the given handles, pointer positions and
\* ratio buttons, within a budget of mouse downs and ratio picks; a mouse-only
\* user presses a button or a handle only while no drag is in progress
CropNext(types, coords, ratios, maxGestures, maxPicks, mouseOnly) ==
    \/ \E type \in types, clientX \in PressCoords, clientY \in PressCoords :
          /\ gestures < maxGestures
          /\ mouseOnly => ~isDragging
          /\ HandleMouseDown(type, clientX, clientY)
    \/ \E clientX \in coords, clientY \in coords : HandleMouseMove(clientX, clientY)
    \/ HandleMouseUp
    \/ \E ratio \in ratios :
          /\ picks < maxPicks
          /\ mouseOnly => ~isDragging
          /\ ApplyAspectRatio(ratio)

DragTypes == {"move"} \cup HandlePositions
Ratios == {aspectRatios[i] : i \in DOMAIN aspectRatios}

\* the crop editor on a loaded image: resets, ratio selection and gestures,
\* in any order
SpecCrop ==
    Init /\ [][\/ LoadSampleImage
               \/ ResetAll
               \/ CropNext(DragTypes, Coords, Ratios, MaxGestures, MaxPicks,
                           FALSE)]_vars

\* longer sessions of a mouse-only user who drags the rectangle and its
\* south, east and south-east handles, and switches between Free and 9:16
SpecMouse ==
    Init /\ [][\/ LoadSampleImage
               \/ (~isDragging /\ ResetAll)
               \/ CropNext({"move", "s", "e", "se"}, Coords,
                           {aspectRatios[1], aspectRatios[7]},
                           MaxGestures + 2, MaxPicks, TRUE)]_vars

\* an editing session that left some rectangle behind, Free still selected
InitRatio ==
    /\ imageUrl = "sample"
    /\ imageError = Null
    /\ zoom = 10
    /\ rotation = 0
    /\ cropArea \in FreeCrops
    /\ selectedRatio = aspectRatios[1]
    /\ isDragging = FALSE
    /\ dragType = Null
    /\ dragStart = [x |-> 0, y |-> 0]
    /\ initialCrop = ZeroCrop
    /\ readers = 0
    /\ urlLoads = 0
    /\ imageRef = NoImage
    /\ preview = NoRegion
    /\ last = "init"
    /\ gestures = 0
    /\ picks = 0
    /\ lastLoad = NoLoad

\* applyAspectRatio on its own: ratio buttons pressed one after the other
SpecRatio ==
    InitRatio /\ [][\E ratio \in Ratios :
                  /\ picks < MaxPicks
                  /\ ApplyAspectRatio(ratio)]_vars

\* the zoom and rotation sliders and the preset angles
SliderNext ==
    \/ \E v \in ZoomTried : ZoomSlider(v)
    \/ \E deg \in RotationTried : RotationSlider(deg)
    \/ \E deg \in PresetAngles : PresetAngle(deg)

\* loading, changing and resetting images while the transform is edited
SpecSession ==
    Init /\ [][\/ LoadNext
               \/ SliderNext
               \/ \E ratio \in Ratios :
                     /\ picks < 1
                     /\ ApplyAspectRatio(ratio)]_vars

\* the preview effect: updatePreview with a decoded image
UpdatePreview ==
    /\ imageRef # NoImage
    /\ preview' = sourceRegion(cropArea, zoom, imageRef)
    /\ last' = "updatePreview"
    /\ UNCHANGED <<imageUrl, imageError, zoom, rotation, cropArea, selectedRatio,
                   dragVars, loadVars, imageRef, lastLoad>>

\* an editing session with a decoded image, some crop rectangle and zoom
InitPreview ==
    /\ imageUrl = "file"
    /\ imageError = Null
    /\ zoom \in ZoomValues
    /\ rotation = 0
    /\ cropArea \in PreviewCrops
    /\ selectedRatio = aspectRatios[1]
    /\ isDragging = FALSE
    /\ dragType = Null
    /\ dragStart = [x |-> 0, y |-> 0]
    /\ initialCrop = ZeroCrop
    /\ readers = 0
    /\ urlLoads = 0
    /\ imageRef \in ImageSizes
    /\ preview = NoRegion
    /\ last = "init"
    /\ gestures = 0
    /\ picks = 0
    /\ lastLoad = NoLoad

\* updatePreview on its own, over crop rectangles, zooms and image sizes
SpecMap == InitPreview /\ [][UpdatePreview]_vars

\* the rotate buttons, explored up to MaxTurns quarter turns past the slider
TurnNext ==
    \/ (rotation - 90 >= -180 - 90 * MaxTurns /\ RotateLeft)
    \/ (rotation + 90 <= 180 + 90 * MaxTurns /\ RotateRight)

\* the transform controls of a loaded image: zoom and rotation buttons,
\* sliders, preset angles and Reset All
SpecTransform ==
    Init /\ [][\/ LoadSampleImage
               \/ ResetAll
               \/ ZoomIn
               \/ ZoomOut
               \/ SliderNext
               \/ TurnNext]_vars

\* a mouse-only user who drags the rectangle and its south-east handle while
\* pasted images are read: a read completes whenever the FileReader is done
SpecPaste ==
    Init /\ [][\/ LoadSampleImage
               \/ FileUploadStart
               \/ ReaderOnload
               \/ ReaderOnerror
               \/ (~isDragging /\ ResetAll)
               \/ CropNext({"move", "se"}, Coords,
                           {aspectRatios[1], aspectRatios[2]},
                           MaxGestures, MaxPicks, TRUE)]_vars

----------------------------------------------------------------------------
(* Properties *)

\* the rectangle lies inside the container
Inside(c) ==
    /\ RLe(R(0), c.x)
    /\ RLe(R(0), c.y)
    /\ RLe(RAdd(c.x, c.width), R(containerWidth))
    /\ RLe(RAdd(c.y, c.height), R(containerHeight))

\* the crop rectangle was produced by a pointer move of a gesture
Moved == last = "handleMouseMove" /\ isDragging /\ dragType # Null

\* the crop rectangle was produced by applyAspectRatio with a constrained ratio
Retargeted == last = "applyAspectRatio" /\ Truthy(selectedRatio.value)

\* C1: the crop rectangle is inside the 500 x 375 container in every
\* reachable state, whatever the handle, pointer position and ratio.
C1_Containment == Inside(cropArea)

\* a ratio-locked resize whose pointer went past the right edge of the container
C1_Witness ==
    /\ Moved
    /\ dragType \in HandlePositions
    /\ Truthy(selectedRatio.value)
    /\ cropArea.width # initialCrop.width
    /\ RAdd(cropArea.x, cropArea.width) = R(containerWidth)

\* the gesture began on a rectangle of at least the minimum size that had the
\* selected ratio, if one is selected
StartedInShape ==
    /\ RLe(R(minSize), initialCrop.width)
    /\ RLe(R(minSize), initialCrop.height)
    /\ Truthy(selectedRatio.value) =>
          initialCrop.width = RMul(initialCrop.height, selectedRatio.value)

\* C2: every rectangle produced by a pointer move of a gesture or by
\* applyAspectRatio has width >= minSize and height >= minSize (here for
\* gestures begun on a rectangle that had both, and the selected ratio).
C2_MinSize ==
    ((Moved /\ StartedInShape) \/ Retargeted) =>
        /\ RLe(R(minSize), cropArea.width)
        /\ RLe(R(minSize), cropArea.height)

\* C3: while a ratio r is selected, every rectangle produced by
\* applyAspectRatio or by a pointer move has width / height within 1/100 of r
\* (here for gestures begun on a rectangle that had the ratio r).
C3_RatioKept ==
    (Truthy(selectedRatio.value) /\ ((Moved /\ StartedInShape) \/ Retargeted)) =>
        RLt(RAbs(RSub(RDiv(cropArea.width, cropArea.height), selectedRatio.value)),
            <<1, 100>>)

\* a successful load has just completed
Loaded == last \in {"reader.onload", "img.onload", "loadSampleImage"}

\* C4: every successful load leaves an image set, the crop rectangle at
\* {100, 75, 300, 225}, zoom 1, rotation 0 and the Free ratio selected.
C4_ResetOnLoad ==
    Loaded =>
        /\ imageUrl # Null
        /\ cropArea = Rect(R(100), R(75), R(300), R(225))
        /\ zoom = 10
        /\ rotation = 0
        /\ selectedRatio.name = "Free"

\* a load that completed over an image whose transform had been edited
C4_Witness == Loaded /\ lastLoad.image # Null /\ lastLoad.edited

\* C5: a failed load (rejected file, read error, URL error) leaves image,
\* crop rectangle, zoom, rotation and selected ratio as they were, and a step
\* that sets a new image resets the transform state in the same step.
C5_FailedLoadPreserves ==
    [][ /\ ( \/ last' \in {"reader.onerror", "img.onerror"}
             \/ (last' = "handleFileUpload" /\ imageError' = "not-an-image") )
           => UNCHANGED <<imageUrl, cropArea, zoom, rotation, selectedRatio>>
        /\ (imageUrl' # imageUrl /\ imageUrl' # Null)
           => /\ cropArea' = DefaultCrop
              /\ zoom' = 10
              /\ rotation' = 0
              /\ selectedRatio' = aspectRatios[1] ]_vars

\* a file read that failed while an edited image was shown
C5_Witness ==
    /\ last = "reader.onerror"
    /\ imageUrl # Null
    /\ zoom # 10
    /\ cropArea # DefaultCrop

\* C6: during a gesture on the east handle the left edge stays where it was
\* at mouse down, for every pointer position and ratio.
C6_EastAnchor ==
    (Moved /\ dragType = "e") => cropArea.x = initialCrop.x

C8_SourceMapping ==
    last = "updatePreview" =>
        /\ RMul(preview.x, R(containerWidth * zoom))
             = RMul(cropArea.x, R(10 * imageRef.width))
        /\ RMul(preview.width, R(containerWidth * zoom))
             = RMul(cropArea.width, R(10 * imageRef.width))
        /\ RMul(preview.y, R(containerHeight * zoom))
             = RMul(cropArea.y, R(10 * imageRef.height))
        /\ RMul(preview.height, R(containerHeight * zoom))
             = RMul(cropArea.height, R(10 * imageRef.height))
        /\ (zoom = 10 /\ imageRef = [width |-> 500, height |-> 375])
             => preview = cropArea
        /\ ( /\ zoom = 20
             /\ imageRef = [width |-> 1000, height |-> 750]
             /\ cropArea = Rect(R(125), <<375, 4>>, R(125), <<375, 4>>) )
             => preview = Rect(R(125), <<375, 4>>, R(125), <<375, 4>>)

\* zoom 2, source 1000 x 750, crop {125, 93.75, 125, 93.75}
C8_Witness ==
    /\ last = "updatePreview"
    /\ zoom = 20
    /\ imageRef = [width |-> 1000, height |-> 750]
    /\ cropArea = Rect(R(125), <<375, 4>>, R(125), <<375, 4>>)
    /\ preview = cropArea

\* C9: with the Free ratio a pointer move by (dx, dy) on the south-east handle
\* gives {x, y, max(minSize, w + dx), max(minSize, h + dy)}, width and height
\* limited to the container; the top-left corner does not move.
C9_FreeSouthEast ==
    (Moved /\ dragType = "se" /\ ~Truthy(selectedRatio.value)) =>
        \E clientX \in Coords, clientY \in Coords :
            cropArea =
                Rect(initialCrop.x, initialCrop.y,
                     RMin(RMax(R(minSize),
                               RAdd(initialCrop.width, R(clientX - dragStart.x))),
                          RSub(R(containerWidth), initialCrop.x)),
                     RMin(RMax(R(minSize),
                               RAdd(initialCrop.height, R(clientY - dragStart.y))),
                          RSub(R(containerHeight), initialCrop.y)))

\* the limits of a value
Clamp(v, lo, hi) == RMax(lo, RMin(hi, v))

\* C10: applyAspectRatio with a constrained ratio r that needs no shrink
\* keeps the width, sets height = width / r and centres the result on the
\* old centre, clamped into the container; 1:1 on {100, 75, 300, 225} gives
\* {100, 37.5, 300, 300}.
C10_KeepsWidthAndCenter ==
    [][ (last' = "applyAspectRatio" /\ Truthy(selectedRatio'.value)) =>
          LET r == selectedRatio'.value
              h == RDiv(cropArea.width, r)
              centerX == RAdd(cropArea.x, RDiv(cropArea.width, R(2)))
              centerY == RAdd(cropArea.y, RDiv(cropArea.height, R(2)))
          IN  /\ RLe(h, R(containerHeight)) =>
                    /\ cropArea'.width = cropArea.width
                    /\ cropArea'.height = h
                    /\ cropArea'.x =
                         Clamp(RSub(centerX, RDiv(cropArea.width, R(2))), R(0),
                               RSub(R(containerWidth), cropArea.width))
                    /\ cropArea'.y =
                         Clamp(RSub(centerY, RDiv(h, R(2))), R(0),
                               RSub(R(containerHeight), h))
              /\ (cropArea = Rect(R(100), R(75), R(300), R(225)) /\ r = <<1, 1>>) =>
                    cropArea' = Rect(R(100), <<75, 2>>, R(300), R(300)) ]_vars

\* 1:1 just applied to the default rectangle
C10_Witness ==
    /\ Retargeted
    /\ selectedRatio.name = "1:1"
    /\ cropArea = Rect(R(100), <<75, 2>>, R(300), R(300))

\* C11: rotation is an integer in [-180, 180] in every reachable state.
C11_RotationRange == rotation \in -180 .. 180

\* C12: zoom lies in [0.5, 3.0] (5 .. 30 tenths) in every reachable state.
C12_ZoomRange == zoom \in 5 .. 30

\* the + button pressed up to the maximum
C12_Witness == last = "zoomIn" /\ zoom = 30

\* C13: a pointer move of a move gesture gives
\* x = clamp(start.x + dx, 0, containerWidth - width),
\* y = clamp(start.y + dy, 0, containerHeight - height), and the width and
\* height of the rectangle at gesture start.
C13_MoveGesture ==
    (Moved /\ dragType = "move") =>
        \E clientX \in Coords, clientY \in Coords :
            cropArea =
                Rect(Clamp(RAdd(initialCrop.x, R(clientX - dragStart.x)), R(0),
                           RSub(R(containerWidth), initialCrop.width)),
                     Clamp(RAdd(initialCrop.y, R(clientY - dragStart.y)), R(0),
                           RSub(R(containerHeight), initialCrop.height)),
                     initialCrop.width, initialCrop.height)

\* C14: applyAspectRatio(Free) changes selectedRatio only: the crop rectangle
\* (x, y, width, height) and the rest of the session state keep their values.
C14_FreeKeepsCrop ==
    [][ (last' = "applyAspectRatio" /\ ~Truthy(selectedRatio'.value)) =>
          /\ selectedRatio' = aspectRatios[1]
          /\ UNCHANGED <<cropArea, zoom, rotation, imageUrl, imageError,
                         gestureVars>> ]_vars

\* Free selected after 1:1 had reshaped the default rectangle
C14_Witness ==
    /\ last = "applyAspectRatio"
    /\ selectedRatio.name = "Free"
    /\ picks > 1
    /\ cropArea = Rect(R(100), <<75, 2>>, R(300), R(300))

\* C15: no rectangle that applyAspectRatio returns for a constrained ratio has
\* height > 0.8 * containerHeight = 300 or width > 0.8 * containerWidth = 400.
C15_ShrinkThreshold ==
    Retargeted =>
        /\ RLe(RMul(cropArea.height, R(10)), R(8 * containerHeight))
        /\ RLe(RMul(cropArea.width, R(10)), R(8 * containerWidth))

\* the handle is a corner, or no ratio is selected
CornerOrFree ==
    dragType \in {"nw", "ne", "sw", "se"} \/ ~Truthy(selectedRatio.value)

\* C16: a pointer move on the west, north-west or south-west handle keeps the
\* right edge x + width of the rectangle at gesture start; one on the north,
\* north-east or north-west handle keeps its bottom edge y + height (edge
\* handles with the Free ratio, corner handles with any ratio).
C16_OppositeEdges ==
    (Moved /\ CornerOrFree) =>
        /\ dragType \in {"w", "nw", "sw"} =>
              RightEdge(cropArea) = RightEdge(initialCrop)
        /\ dragType \in {"n", "ne", "nw"} =>
              BottomEdge(cropArea) = BottomEdge(initialCrop)

\* C17: with a ratio r selected, a pointer move on the north or south handle
\* gives width = height * r and keeps the horizontal centre x + width / 2 of
\* the rectangle at gesture start (here for gestures begun on a rectangle of
\* ratio r).
C17_NorthSouthLocked ==
    ( /\ Moved
      /\ StartedInShape
      /\ Truthy(selectedRatio.value)
      /\ dragType \in {"n", "s"} ) =>
        /\ cropArea.width = RMul(cropArea.height, selectedRatio.value)
        /\ RAdd(cropArea.x, RDiv(cropArea.width, R(2)))
             = RAdd(initialCrop.x, RDiv(initialCrop.width, R(2)))

\* C18: handleMouseUp leaves the crop rectangle as the last pointer move (or
\* the mouse down) left it, and no pointer move changes it while no gesture
\* is in progress.
C18_PointerUpCommits ==
    [][ /\ last' = "handleMouseUp" =>
              /\ cropArea' = cropArea
              /\ ~isDragging'
        /\ (~isDragging /\ last' = "handleMouseMove") =>
              cropArea' = cropArea ]_vars

\* a pointer move after the end of a gesture that had resized the rectangle
C18_Witness ==
    /\ last = "handleMouseMove"
    /\ ~isDragging
    /\ gestures > 0
    /\ initialCrop # ZeroCrop
    /\ cropArea.width # initialCrop.width

\* C19: a pointer move of a gesture leaves the snapshot (handle, start point,
\* start rectangle) alone and produces a rectangle that is a function of the
\* snapshot, the selected ratio and the pointer position only: the one computed
\* with the start rectangle in the place of the current rectangle.
C19_SnapshotOnly ==
    [][ (isDragging /\ dragType # Null /\ last' = "handleMouseMove") =>
          /\ UNCHANGED <<dragType, dragStart, initialCrop, isDragging>>
          /\ \E clientX \in Coords, clientY \in Coords :
                cropArea' = gestureCrop(dragType, clientX - dragStart.x,
                                        clientY - dragStart.y, initialCrop,
                                        initialCrop, selectedRatio) ]_vars

\* Reset All or a successful load has just completed
JustReset == Loaded \/ last = "resetCrop"

\* C20: after Reset All or a successful load a pointer move (of a gesture
\* begun before it) leaves the crop rectangle at the default {100, 75, 300, 225}.
C20_ResetSurvivesGesture ==
    [][ (JustReset /\ last' = "handleMouseMove") =>
          cropArea' = Rect(R(100), R(75), R(300), R(225)) ]_vars

\* C21: isDragging is true exactly when dragType is non-null, in every
\* reachable state; and a pointer move received while isDragging is false
\* leaves the crop rectangle, zoom, rotation, selected ratio and the gesture
\* snapshot unchanged.
C21_IdleMoveIsNoOp ==
    /\ [](isDragging <=> dragType # Null)
    /\ [][ (~isDragging /\ last' = "handleMouseMove") =>
              UNCHANGED <<cropArea, zoom, rotation, selectedRatio, isDragging,
                          dragType, dragStart, initialCrop>> ]_vars

\* a pointer move after the end of a gesture, a ratio being selected
C21_Witness ==
    /\ last = "handleMouseMove"
    /\ ~isDragging
    /\ dragType = Null
    /\ gestures > 0
    /\ Truthy(selectedRatio.value)
    /\ cropArea # DefaultCrop

\* C22: with the Free ratio, a pointer move at the position of the mouse down
\* (dx = 0, dy = 0), on any handle or on the rectangle, gives exactly the
\* rectangle at gesture start.
C22_ZeroDisplacement ==
    [][ ( /\ last = "handleMouseDown"
          /\ ~Truthy(selectedRatio.value)
          /\ HandleMouseMove(dragStart.x, dragStart.y) ) =>
          cropArea' = initialCrop ]_vars

====
